---- MODULE Spec2Model ----
(***************************************************************************)
(* Batch orchestration pipeline of analyze-codebase-azure.js:              *)
(* createBatches -> processBatchesInParallel -> analyzeBatchWithRetry ->   *)
(* analyzeBatch -> aggregateResults, as run by analyzeCodebaseInBatches.   *)
(***************************************************************************)
EXTENDS Integers, Sequences, FiniteSets, TLC

(* ---------------- bounds of the model ---------------- *)
MaxFiles == 5          \* files of a run
MaxBatchSize == 2      \* batchSize values of a run
MaxConcurrency == 3    \* concurrency values of a run
MaxPlanFiles == 4      \* files handed to createBatches on its own
MaxPlanBatchSize == 3  \* batchSize values handed to createBatches on its own
MaxContentLen == 5     \* characters of one file's content
MaxTokenBudget == 3    \* values of CONFIG.MAX_INPUT_TOKENS
MaxBatchFiles == 2     \* files of the single batch of a one-batch run
MaxFairFiles == 3      \* files of a run checked for progress
MaxFairConcurrency == 2 \* concurrency values of a run checked for progress
MaxOrderFiles == 4     \* files of a run whose completion order is observed
MaxOrderBatchSize == 2 \* batchSize values of such a run
MaxOrderConcurrency == 2 \* concurrency values of such a run
MaxAggBatches == 2     \* batch results handed to aggregateResults on its own
MaxUsageFiles == 2     \* files of a run whose token usage is followed
MaxUsageConcurrency == 2 \* concurrency values of such a run
MaxActualSize == 3     \* _actual_batch_size of a batch result handed to aggregateResults

(* ---------------- CONFIG ---------------- *)
RETRY_ATTEMPTS == 3
RETRY_DELAY_MS == 1000
RETRY_BACKOFF == 2

VARIABLES
  pc,              \* position of analyzeCodebaseInBatches
  fileContents,    \* the files read: <<[name, content]>>, content as its character count
  batchSize,       \* batchSize argument of createBatches
  maxInputTokens,  \* CONFIG.MAX_INPUT_TOKENS
  concurrency,     \* concurrency argument of processBatchesInParallel
  batches,         \* the plan returned by createBatches
  i,               \* loop index of processBatchesInParallel (0-based start of the wave)
  task,            \* one analyzeBatchWithRetry promise per batch
  results,         \* results list of processBatchesInParallel
  errors,          \* errors list of processBatchesInParallel
  hist,            \* per batch, what was observed of its executor: calls made,
                   \* attempts failed, error raised by the latest failed attempt,
                   \* delays passed to sleep()
  debugFiles,      \* debug artifacts written: {<<batchNumber, attempt>>}
  outcome,         \* how analyzeCodebaseInBatches ended
  overtaken,       \* observed (in SpecOrder): some batch settled while a batch
                   \* before it in its wave was still in flight
  tokenUsage,      \* tokenUsage argument of calculateCost
  modelName,       \* modelName argument of calculateCost
  costs,           \* value returned by calculateCost
  batchResults,    \* batchResults argument of aggregateResults
  aggregated,      \* outcome of aggregateResults
  record,          \* the record the remote service serialized
  responseText,    \* the text it sent, as a sequence of symbols
  extracted,       \* outcome of the extraction stages of analyzeBatch
  reparsed         \* outcome of JSON.parse(attemptJsonRepair(responseText))

\* arguments and return values of the functions checked on their own
unitVars == <<tokenUsage, modelName, costs, batchResults, aggregated,
              record, responseText, extracted, reparsed>>

\* state of a run of analyzeCodebaseInBatches
runVars == <<pc, fileContents, batchSize, maxInputTokens, concurrency, batches,
             i, task, results, errors, hist, debugFiles, outcome, overtaken>>

vars == <<runVars, unitVars>>

Min(a, b) == IF a < b THEN a ELSE b

RECURSIVE Pow(_, _)
Pow(b, e) == IF e = 0 THEN 1 ELSE b * Pow(b, e - 1)

(* ---------------- TokenEstimator / BatchPlanner ---------------- *)

\* Math.ceil(text.length / 4); the text is represented by its length
estimateTokens(len) == (len + 3) \div 4

\* the condition that closes the running batch before the next file is added
StartsNewBatchOffByOne(currentLen, currentTokenEstimate, fileTokens, size) ==
  \/ currentLen > size
  \/ (currentTokenEstimate + fileTokens > maxInputTokens /\ currentLen > 0)

StartsNewBatchFileTokensOnly(currentLen, currentTokenEstimate, fileTokens, size) ==
  \/ currentLen >= size
  \/ (fileTokens > maxInputTokens /\ currentLen > 0)

StartsNewBatchEvenIfEmpty(currentLen, currentTokenEstimate, fileTokens, size) ==
  \/ currentLen >= size
  \/ currentTokenEstimate + fileTokens > maxInputTokens

StartsNewBatch(currentLen, currentTokenEstimate, fileTokens, size) ==
  \/ currentLen >= size
  \/ (currentTokenEstimate + fileTokens > maxInputTokens /\ currentLen > 0)

\* after the loop: the remaining files form the last batch
AddRemainingDropped(bs, currentBatch) == bs

AddRemaining(bs, currentBatch) ==
  IF Len(currentBatch) > 0 THEN Append(bs, currentBatch) ELSE bs

RECURSIVE createBatchesFrom(_, _, _, _, _, _)
createBatchesFrom(files, size, k, bs, currentBatch, currentTokenEstimate) ==
  IF k > Len(files)
  THEN AddRemaining(bs, currentBatch)
  ELSE LET file == files[k]
           fileTokens == estimateTokens(file.content)
       IN IF StartsNewBatch(Len(currentBatch), currentTokenEstimate, fileTokens, size)
          THEN createBatchesFrom(files, size, k + 1, Append(bs, currentBatch),
                                 <<file>>, fileTokens)
          ELSE createBatchesFrom(files, size, k + 1, bs,
                                 Append(currentBatch, file),
                                 currentTokenEstimate + fileTokens)

createBatches(files, size) == createBatchesFrom(files, size, 1, <<>>, <<>>, 0)

(* ---------------- remote responses and analyzeBatch ---------------- *)

Categories == {"architecture", "code_quality", "validations", "error_handling"}
GradeSections == Categories \cup {"overall"}

\* a parsed record, by the sections it carries: project_summary truthy,
\* grades truthy, and the sub-sections present inside grades
ParsedRecords ==
  {[project_summary |-> ps, grades |-> g, sections |-> s] :
     ps \in BOOLEAN, g \in BOOLEAN, s \in SUBSET GradeSections}

WellFormedRecords == {r \in ParsedRecords : r.grades \/ r.sections = {}}

FullRecord == [project_summary |-> TRUE, grades |-> TRUE, sections |-> GradeSections]

\* one reply of the remote service to one attempt:
\*   api      - the chat.completions.create call returned (else it threw)
\*   direct   - JSON.parse(jsonText) succeeds
\*   repaired - JSON.parse(attemptJsonRepair(jsonText)) succeeds
\*   parsed   - the record a successful parse yields
\*   usage    - result.usage, when the reply carries one
Usage(promptTokens, completionTokens, totalTokens) ==
  [present |-> TRUE, promptTokens |-> promptTokens,
   completionTokens |-> completionTokens, totalTokens |-> totalTokens]

NoUsage == [present |-> FALSE, promptTokens |-> 0, completionTokens |-> 0, totalTokens |-> 0]

Reply(api, direct, repaired, parsed) ==
  [api |-> api, direct |-> direct, repaired |-> repaired, parsed |-> parsed,
   usage |-> Usage(1000, 200, 1200)]

WithUsage(reply, usage) == [reply EXCEPT !.usage = usage]

RemoteFailure == Reply(FALSE, FALSE, FALSE, FullRecord)
Unparseable == Reply(TRUE, FALSE, FALSE, FullRecord)

AllResponses ==
  {RemoteFailure, Unparseable}
    \cup {Reply(TRUE, TRUE, TRUE, r) : r \in WellFormedRecords}
    \cup {Reply(TRUE, FALSE, TRUE, r) : r \in WellFormedRecords}

\* the replies drawn in a full run
RunResponses ==
  {RemoteFailure,
   Reply(TRUE, TRUE, TRUE, FullRecord),
   Reply(TRUE, TRUE, TRUE, [FullRecord EXCEPT !.sections = GradeSections \ {"architecture"}])}

\* the replies drawn in a run whose token usage is followed: what is used
\* differs from reply to reply, is reported for failed attempts too, and may
\* be absent
UsageResponses ==
  {WithUsage(RemoteFailure, NoUsage),
   WithUsage(Unparseable, Usage(4000, 800, 4800)),
   Reply(TRUE, TRUE, TRUE, FullRecord),
   WithUsage(Reply(TRUE, TRUE, TRUE, FullRecord), Usage(2000, 500, 2600)),
   WithUsage(Reply(TRUE, TRUE, TRUE, FullRecord), NoUsage)}

\* analysisResult.token_usage: result.usage?.<field> || 0
TokenUsageOf(usage) ==
  IF usage.present
  THEN [prompt_tokens |-> usage.promptTokens,
        completion_tokens |-> usage.completionTokens,
        total_tokens |-> usage.totalTokens]
  ELSE [prompt_tokens |-> 0, completion_tokens |-> 0, total_tokens |-> 0]

\* if (!analysisResult.project_summary || !analysisResult.grades) throw
PassesSchemaCheck(r) == r.project_summary /\ r.grades

\* an error, by the statement that threw it, the attempt it ended and, for a
\* failed extraction, the parse failure whose message it carries
NoError == [kind |-> "none", attempt |-> 0, cause |-> "none"]
MkError(kind, attempt) == [kind |-> kind, attempt |-> attempt, cause |-> "none"]

ParseFailureOfRepair(attempt) ==
  [kind |-> "ExtractionError", attempt |-> attempt, cause |-> "repairError"]

\* new Error(`Failed to parse JSON response: ${parseError.message}...`)
ParseFailure(attempt) ==
  [kind |-> "ExtractionError", attempt |-> attempt, cause |-> "parseError"]

NoValue == <<>>

\* analyzeBatch on one reply: the returned record or the error thrown, and
\* whether the raw response was written to a debug file
analyzeBatch(batch, batchNumber, attempt, resp) ==
  IF ~resp.api
  THEN [ok |-> FALSE, value |-> NoValue, error |-> MkError("RemoteCallError", attempt), debug |-> FALSE]
  ELSE IF ~resp.direct /\ ~resp.repaired
  THEN [ok |-> FALSE, value |-> NoValue, error |-> ParseFailure(attempt), debug |-> TRUE]
  ELSE IF ~PassesSchemaCheck(resp.parsed)
  THEN [ok |-> FALSE, value |-> NoValue, error |-> MkError("SchemaError", attempt), debug |-> FALSE]
  ELSE [ok |-> TRUE,
        value |-> <<[project_summary |-> resp.parsed.project_summary,
                     grades |-> resp.parsed.grades,
                     sections |-> resp.parsed.sections,
                     token_usage |-> TokenUsageOf(resp.usage),
                     _actual_batch_size |-> Len(batch)]>>,
        error |-> NoError, debug |-> FALSE]

(* ---------------- RetryingBatchExecutor ---------------- *)

\* CONFIG.RETRY_DELAY_MS * Math.pow(CONFIG.RETRY_BACKOFF, attempt - 1)
RetryDelayShifted(attempt) == RETRY_DELAY_MS * Pow(RETRY_BACKOFF, attempt)

RetryDelay(attempt) == RETRY_DELAY_MS * Pow(RETRY_BACKOFF, attempt - 1)

\* if (attempt < CONFIG.RETRY_ATTEMPTS) sleep and retry, else give up
RetriesLeft(attempt) == attempt < RETRY_ATTEMPTS

RetryableOnceMore(attempt, error) == attempt < RETRY_ATTEMPTS + 1

RetryableRemoteOnly(attempt, error) ==
  RetriesLeft(attempt) /\ error.kind = "RemoteCallError"

\* catch (error): whatever analyzeBatch threw is retried while attempts remain
Retryable(attempt, error) == RetriesLeft(attempt)

\* lastError = error
NextLastErrorKeepFirst(lastError, error) ==
  IF lastError = NoError THEN error ELSE lastError

NextLastError(lastError, error) == error

IdleTask == [phase |-> "idle", attempt |-> 0, lastError |-> NoError,
             value |-> NoValue, error |-> NoError]

NoHistory == [calls |-> 0, failures |-> 0, raised |-> NoError, slept |-> <<>>,
              unparsed |-> {}]

Settled(b) == task[b].phase \in {"ok", "failed"}
InFlight(b) == task[b].phase \in {"call", "writing", "sleep"}

(* ---------------- ConcurrencyLimiter ---------------- *)

\* batches.slice(i, Math.min(i + concurrency, batches.length)), as batch numbers
ChunkOneMore(start) == (start + 1)..Min(start + concurrency + 1, Len(batches))

Chunk(start) == (start + 1)..Min(start + concurrency, Len(batches))

\* await Promise.allSettled(chunkPromises)
AnySettled(chunk) == \E b \in chunk : Settled(b)

AllSettled(chunk) == \A b \in chunk : Settled(b)

Names(batch) == [k \in 1..Len(batch) |-> batch[k].name]

RECURSIVE CollectFromSkipFailed(_, _, _, _)
CollectFromSkipFailed(b, last, rs, es) ==
  IF b > last THEN [results |-> rs, errors |-> es]
  ELSE IF task[b].phase = "ok"
  THEN CollectFromSkipFailed(b + 1, last, Append(rs, task[b].value[1]), es)
  ELSE CollectFromSkipFailed(b + 1, last, rs, es)

RECURSIVE CollectFromLastFirst(_, _, _, _)
CollectFromLastFirst(b, last, rs, es) ==
  IF b > last THEN [results |-> rs, errors |-> es]
  ELSE IF task[last].phase = "ok"
  THEN CollectFromLastFirst(b, last - 1, Append(rs, task[last].value[1]), es)
  ELSE CollectFromLastFirst(b, last - 1, rs,
         Append(es, [batchNumber |-> last, error |-> task[last].error,
                     files |-> Names(batches[last])]))

RECURSIVE CollectFrom(_, _, _, _)
\* chunkResults.forEach: push each settled value onto results or errors
CollectFrom(b, last, rs, es) ==
  IF b > last THEN [results |-> rs, errors |-> es]
  ELSE IF task[b].phase = "ok"
  THEN CollectFrom(b + 1, last, Append(rs, task[b].value[1]), es)
  ELSE CollectFrom(b + 1, last, rs,
         Append(es, [batchNumber |-> b, error |-> task[b].error,
                     files |-> Names(batches[b])]))

\* chunk.map(...): every batch of the chunk starts its first attempt
Launched(chunk) ==
  [b \in DOMAIN task |->
     IF b \in chunk THEN [IdleTask EXCEPT !.phase = "call", !.attempt = 1]
     ELSE task[b]]

Called(chunk) ==
  [b \in DOMAIN hist |->
     IF b \in chunk THEN [hist[b] EXCEPT !.calls = @ + 1] ELSE hist[b]]

(* ---------------- ResultAggregator (template selection) ---------------- *)

IsValidBase(batch) ==
  batch.project_summary /\ batch.grades /\ batch.sections = GradeSections

HasValidBase(bs) ==
  \E k \in 1..Len(bs) : IsValidBase(bs[k])

getValidBaseBatchLast(bs) ==
  CHOOSE k \in 1..Len(bs) :
    IsValidBase(bs[k]) /\ \A j \in (k + 1)..Len(bs) : ~IsValidBase(bs[j])

\* getValidBaseBatch: the index of the batch the for-loop returns
getValidBaseBatch(bs) ==
  CHOOSE k \in 1..Len(bs) :
    IsValidBase(bs[k]) /\ \A j \in 1..(k - 1) : ~IsValidBase(bs[j])

(* ---------------- initial states ---------------- *)

(* ---------------- aggregateResults ---------------- *)

\* Math.round(n / d) for n >= 0 and d > 0: a half goes up
Round(n, d) == (2 * n + d) \div (2 * d)

BatchWeightReported(batch) ==
  IF batch.total_files = 0 THEN 1 ELSE batch.total_files

\* batch._actual_batch_size || 1
BatchWeight(batch) ==
  IF batch._actual_batch_size = 0 THEN 1 ELSE batch._actual_batch_size

\* batch.grades?.[category]?.score || 0, in tenths
ScoreOf(batch, category) ==
  IF batch.grades /\ category \in batch.sections THEN batch.score[category] ELSE 0

RECURSIVE WeightedSum(_, _)
WeightedSum(bs, category) ==
  IF bs = <<>> THEN 0
  ELSE ScoreOf(Head(bs), category) * BatchWeight(Head(bs)) + WeightedSum(Tail(bs), category)

RECURSIVE TotalWeight(_)
TotalWeight(bs) ==
  IF bs = <<>> THEN 0 ELSE BatchWeight(Head(bs)) + TotalWeight(Tail(bs))

CategoryScoreUndivided(bs, category) == WeightedSum(bs, category)

\* aggregated.grades[category].score, in tenths
CategoryScore(bs, category) ==
  LET totalWeight == TotalWeight(bs)
  IN IF totalWeight > 0 THEN Round(WeightedSum(bs, category), totalWeight) ELSE 0

\* overallScore, in thousandths, from the category scores in tenths
OverallScore(score) ==
  score["architecture"] * 25 + score["code_quality"] * 30
    + score["validations"] * 25 + score["error_handling"] * 20

\* weighted_score, in tenths: Math.round(overallScore * 10) / 10
WeightedScore(overallScore) == Round(overallScore, 100)

\* the if-chain on overallScore (thousandths)
FinalGrade(overallScore) ==
  IF overallScore >= 9000 THEN "A"
  ELSE IF overallScore >= 7000 THEN "B"
  ELSE IF overallScore >= 5000 THEN "C"
  ELSE IF overallScore >= 3000 THEN "D"
  ELSE "F"

RECURSIVE TotalClasses(_)
TotalClasses(bs) ==
  IF bs = <<>> THEN 0
  ELSE (IF Head(bs).project_summary THEN Head(bs).total_classes ELSE 0)
         + TotalClasses(Tail(bs))

\* [...new Set(list)]: the first occurrence of every element, in order
RECURSIVE Dedup(_)
Dedup(list) ==
  IF list = <<>> THEN <<>>
  ELSE LET rest == Dedup(SubSeq(list, 1, Len(list) - 1))
           last == list[Len(list)]
       IN IF \E k \in 1..Len(rest) : rest[k] = last THEN rest ELSE Append(rest, last)

\* problem.occurrences || 1
OccurrencesOrOne(problem) ==
  IF problem.occurrences = 0 THEN 1 ELSE problem.occurrences

\* one step of the forEach over common_problems; problemsMap in insertion order
MergeProblem(problemsMap, problem) ==
  IF \E k \in 1..Len(problemsMap) : problemsMap[k].title = problem.title
  THEN LET k == CHOOSE k \in 1..Len(problemsMap) : problemsMap[k].title = problem.title
           existing == problemsMap[k]
       IN [problemsMap EXCEPT ![k] =
             [existing EXCEPT
                !.occurrences = existing.occurrences + OccurrencesOrOne(problem),
                !.affected_files = Dedup(existing.affected_files \o problem.affected_files)]]
  ELSE Append(problemsMap, problem)

RECURSIVE MergeProblems(_, _)
MergeProblems(problems, problemsMap) ==
  IF problems = <<>> THEN problemsMap
  ELSE MergeProblems(Tail(problems), MergeProblem(problemsMap, Head(problems)))

\* the entries of one list field of every batch, in batch order
RECURSIVE AllOf(_, _)
AllOf(bs, field) ==
  IF bs = <<>> THEN <<>> ELSE Head(bs)[field] \o AllOf(Tail(bs), field)

\* .sort((a, b) => b.occurrences - a.occurrences): descending, stable
RECURSIVE SortByOccurrences(_)
SortByOccurrences(list) ==
  IF list = <<>> THEN <<>>
  ELSE LET init == SortByOccurrences(SubSeq(list, 1, Len(list) - 1))
           last == list[Len(list)]
           pos == Cardinality({k \in 1..Len(init) : init[k].occurrences >= last.occurrences})
       IN SubSeq(init, 1, pos) \o <<last>> \o SubSeq(init, pos + 1, Len(init))

RECURSIVE FirstPerDescriptionLastWins(_)
FirstPerDescriptionLastWins(list) ==
  IF list = <<>> THEN <<>>
  ELSE LET rest == FirstPerDescriptionLastWins(SubSeq(list, 1, Len(list) - 1))
           last == list[Len(list)]
       IN IF \E k \in 1..Len(rest) : rest[k].description = last.description
          THEN [k \in 1..Len(rest) |->
                  IF rest[k].description = last.description THEN last ELSE rest[k]]
          ELSE Append(rest, last)

\* recommendationsMap: the first recommendation of every description
RECURSIVE FirstPerDescription(_)
FirstPerDescription(list) ==
  IF list = <<>> THEN <<>>
  ELSE LET rest == FirstPerDescription(SubSeq(list, 1, Len(list) - 1))
           last == list[Len(list)]
       IN IF \E k \in 1..Len(rest) : rest[k].description = last.description
          THEN rest ELSE Append(rest, last)

TOP_ISSUES_KEPT == 20

SliceDeduplicated(list, end) ==
  SubSeq(Dedup(list), 1, Min(end, Len(Dedup(list))))

\* list.slice(0, end)
Slice(list, end) == SubSeq(list, 1, Min(end, Len(list)))

\* aggregateResults: the report returned, or the error getValidBaseBatch throws
aggregateResults(bs, totalFiles, totalBatches) ==
  IF ~HasValidBase(bs)
  THEN [ok |-> FALSE, error |-> "NoValidBase", value |-> NoValue]
  ELSE LET baseBatch == bs[getValidBaseBatch(bs)]
           score == [c \in Categories |-> CategoryScore(bs, c)]
           overallScore == OverallScore(score)
           allTopIssues == AllOf(bs, "top_issues")
       IN [ok |-> TRUE, error |-> "none", value |->
            <<[project_summary |-> [total_files |-> totalFiles,
                                    batches_processed |-> totalBatches,
                                    total_classes |-> TotalClasses(bs)],
               score |-> score,
               overall |-> [weighted_score |-> WeightedScore(overallScore),
                            final_grade |-> FinalGrade(overallScore),
                            summary |-> baseBatch.overall.summary],
               common_problems |->
                 SortByOccurrences(MergeProblems(AllOf(bs, "common_problems"), <<>>)),
               top_issues |-> Slice(allTopIssues, TOP_ISSUES_KEPT),
               recommendations |-> FirstPerDescription(AllOf(bs, "recommendations"))]>>]

\* a batch result as analyzeBatch returns it, with the fields aggregateResults reads
(* ---- the objects aggregateResults writes to ---- *)

\* where an object lives: Fresh for one the call created, <<k>> for element
\* k of batchResults, <<k, j>> for problem j of that element
Fresh == <<>>

\* JSON.parse(JSON.stringify(baseBatch)): a new object
DeepCopy(ref) == Fresh

SpreadCopyShared(ref) == ref

\* { ...problem }: a new object with the properties of problem
SpreadCopy(ref) == Fresh

\* the problems the two forEach loops visit, in order, by where they live
RECURSIVE ProblemRefs(_, _)
ProblemRefs(bs, k) ==
  IF k > Len(bs) THEN <<>>
  ELSE [j \in 1..Len(bs[k].common_problems) |-> <<k, j>>] \o ProblemRefs(bs, k + 1)

\* lines 1045-1052 for the problems at refs: problemsMap holds, per title,
\* the object stored; a write to `existing` lands on the input when that
\* object is one of the input's. Yields the input list after the loop.
RECURSIVE MergeWrites(_, _, _)
MergeWrites(refs, problemsMap, heap) ==
  IF refs = <<>> THEN heap
  ELSE LET ref == Head(refs)
           problem == heap[ref[1]].common_problems[ref[2]]
       IN IF \E k \in 1..Len(problemsMap) : problemsMap[k].title = problem.title
          THEN LET k == CHOOSE k \in 1..Len(problemsMap) : problemsMap[k].title = problem.title
                   existing == problemsMap[k]
                   occurrences == existing.occurrences + OccurrencesOrOne(problem)
                   affected_files == Dedup(existing.affected_files \o problem.affected_files)
               IN MergeWrites(
                    Tail(refs),
                    [problemsMap EXCEPT ![k] = [@ EXCEPT !.occurrences = occurrences,
                                                         !.affected_files = affected_files]],
                    IF existing.ref = Fresh THEN heap
                    ELSE [heap EXCEPT ![existing.ref[1]].common_problems[existing.ref[2]] =
                            [@ EXCEPT !.occurrences = occurrences,
                                      !.affected_files = affected_files]])
          ELSE MergeWrites(
                 Tail(refs),
                 Append(problemsMap,
                        [title |-> problem.title, occurrences |-> problem.occurrences,
                         affected_files |-> problem.affected_files,
                         ref |-> SpreadCopy(ref)]),
                 heap)

\* the assignments to `aggregated` and the delete of its marker, as they
\* would show on the object `aggregated` refers to
Overwritten(batch, report) ==
  LET written == [batch EXCEPT !.total_classes = report.project_summary.total_classes,
                               !.score = report.score,
                               !.overall = report.overall,
                               !.common_problems = report.common_problems,
                               !.top_issues = report.top_issues,
                               !.recommendations = report.recommendations]
  IN [f \in DOMAIN written \ {"_actual_batch_size"} |-> written[f]]

\* batchResults as the call leaves it: untouched when getValidBaseBatch
\* throws, else after the writes through `existing` and `aggregated`
InputAfter(bs, result) ==
  IF ~result.ok THEN bs
  ELSE LET base == getValidBaseBatch(bs)
           merged == MergeWrites(ProblemRefs(bs, 1), <<>>, bs)
       IN IF DeepCopy(<<base>>) = Fresh THEN merged
          ELSE [merged EXCEPT ![base] = Overwritten(merged[base], result.value[1])]

BatchResult(sections, score, size, problems) ==
  [project_summary |-> TRUE, grades |-> TRUE, sections |-> sections,
   score |-> score, _actual_batch_size |-> size,
   total_files |-> size + MaxActualSize, total_classes |-> 2 * size,
   overall |-> [weighted_score |-> 0, final_grade |-> "F", summary |-> "no summary"],
   common_problems |-> problems, top_issues |-> <<>>, recommendations |-> <<>>]

\* category scores of one batch, in tenths
ScoreProfiles ==
  {[c \in Categories |-> 100],
   [c \in Categories |-> 60],
   [c \in Categories |-> 0],
   [c \in Categories |-> IF c = "error_handling" THEN 88 ELSE 90],
   [c \in Categories |-> IF c = "error_handling" THEN 29 ELSE 30]}

ScoredResults ==
  {BatchResult(s, p, n, <<>>) :
     s \in {GradeSections, GradeSections \ {"error_handling"}},
     p \in ScoreProfiles, n \in 0..MaxActualSize}

Problems ==
  {[title |-> t, occurrences |-> o, affected_files |-> f] :
     t \in {"Missing null check", "Empty catch block"},
     o \in {0, 2, 3},
     f \in {<<"A.java">>, <<"B.java">>, <<"A.java", "B.java">>}}

ProblemLists ==
  {<<>>} \cup {<<p>> : p \in Problems}
    \cup {<<p, q>> : p \in {x \in Problems : x.title = "Missing null check" /\ x.occurrences = 2},
                     q \in {x \in Problems : x.affected_files = <<"A.java">>}}

ResultsWithProblems ==
  {BatchResult(GradeSections, [c \in Categories |-> 60], 1, ps) : ps \in ProblemLists}

\* the top_issues of one batch: k findings in one file, in the order reported
IssuesOf(file, k) == [n \in 1..k |-> [file |-> file, issue |-> n]]

\* none, lists that together exceed TOP_ISSUES_KEPT, lists sharing entries,
\* and a list that repeats an entry
TopIssueLists ==
  {<<>>, IssuesOf("A.java", 9), IssuesOf("A.java", 12), IssuesOf("B.java", 12),
   IssuesOf("B.java", 2) \o IssuesOf("A.java", 1) \o IssuesOf("B.java", 1)}

ResultsWithTopIssues ==
  {[BatchResult(GradeSections, [c \in Categories |-> 60], 1, <<>>)
      EXCEPT !.top_issues = l] : l \in TopIssueLists}

Recommendation(description, priority) ==
  [description |-> description, priority |-> priority]

\* none, one, two of different descriptions, and a description repeated with
\* another priority
RecommendationLists ==
  {<<>>,
   <<Recommendation("Add input validation", "high")>>,
   <<Recommendation("Add input validation", "low")>>,
   <<Recommendation("Introduce a service layer", "medium"),
     Recommendation("Add input validation", "medium")>>,
   <<Recommendation("Add input validation", "high"),
     Recommendation("Add input validation", "low")>>}

ResultsWithRecommendations ==
  {[BatchResult(GradeSections, [c \in Categories |-> 60], 1, <<>>)
      EXCEPT !.recommendations = l] : l \in RecommendationLists}

\* grades.overall as a batch result carries it
CarriedOveralls ==
  {[weighted_score |-> 100, final_grade |-> "A", summary |-> "summary one"],
   [weighted_score |-> 55, final_grade |-> "C", summary |-> "summary two"],
   [weighted_score |-> 0, final_grade |-> "F", summary |-> "summary three"]}

\* batch results that are or are not fit as template: complete, without
\* project_summary, without grades, without grades.overall, without a category
TemplateCandidates ==
  {[BatchResult(x.sections, [c \in Categories |-> 30], 1, <<>>)
      EXCEPT !.project_summary = x.project_summary, !.grades = x.grades, !.overall = o] :
     x \in {[project_summary |-> TRUE, grades |-> TRUE, sections |-> GradeSections],
             [project_summary |-> FALSE, grades |-> TRUE, sections |-> GradeSections],
             [project_summary |-> TRUE, grades |-> FALSE, sections |-> {}],
             [project_summary |-> TRUE, grades |-> TRUE, sections |-> GradeSections \ {"overall"}],
             [project_summary |-> TRUE, grades |-> TRUE, sections |-> GradeSections \ {"validations"}]},
     o \in CarriedOveralls}

SeqsUpTo(S, n) == UNION {[1..k -> S] : k \in 1..n}

(* ---------------- response text, JSON.parse, JSON.stringify ---------------- *)

\* A text is a sequence of symbols: the characters the patterns and the JSON
\* grammar tell apart, each on its own, and words (runs of letters) as one
\* symbol.  The code fence stands for three backticks.
Quote == "\""
Backslash == "\\"
Tab == "\t"
Fence == "FENCE"
Whitespace == {" ", Tab}

\* a JSON value: a string (its characters) or an object (its members in order)
Str(chars) == [type |-> "string", chars |-> chars, members |-> <<>>]
Obj(members) == [type |-> "object", chars |-> <<>>, members |-> members]
Member(key, value) == [key |-> key, value |-> value]

ParseFail == [ok |-> FALSE, value |-> Str(<<>>), next |-> 0]
Parsed(value, next) == [ok |-> TRUE, value |-> value, next |-> next]

RECURSIVE SkipWs(_, _)
SkipWs(text, pos) ==
  IF pos <= Len(text) /\ text[pos] \in Whitespace THEN SkipWs(text, pos + 1) ELSE pos

\* the character an escape sequence stands for
Unescaped(c) ==
  IF c = "t" THEN Tab ELSE c

\* the rest of a string literal after its opening quote
RECURSIVE ScanString(_, _, _)
ScanString(text, pos, acc) ==
  IF pos > Len(text) THEN ParseFail
  ELSE IF text[pos] = Quote THEN Parsed(Str(acc), pos + 1)
  ELSE IF text[pos] = Tab THEN ParseFail
  ELSE IF text[pos] = Backslash
  THEN IF pos + 1 <= Len(text) /\ text[pos + 1] \in {Quote, Backslash, "t"}
       THEN ScanString(text, pos + 2, Append(acc, Unescaped(text[pos + 1])))
       ELSE ParseFail
  ELSE ScanString(text, pos + 1, Append(acc, text[pos]))

RECURSIVE ParseValue(_, _)
RECURSIVE ParseMembers(_, _, _)

\* a value starting at pos: a string literal or an object
ParseValue(text, pos) ==
  IF pos > Len(text) THEN ParseFail
  ELSE IF text[pos] = Quote THEN ScanString(text, pos + 1, <<>>)
  ELSE IF text[pos] = "{"
  THEN LET p == SkipWs(text, pos + 1)
       IN IF p <= Len(text) /\ text[p] = "}" THEN Parsed(Obj(<<>>), p + 1)
          ELSE ParseMembers(text, p, <<>>)
  ELSE ParseFail

\* the members of an object from pos, where a key must start
ParseMembers(text, pos, acc) ==
  IF pos > Len(text) \/ text[pos] # Quote THEN ParseFail
  ELSE LET k == ScanString(text, pos + 1, <<>>)
       IN IF ~k.ok THEN ParseFail
          ELSE LET c == SkipWs(text, k.next)
               IN IF c > Len(text) \/ text[c] # ":" THEN ParseFail
                  ELSE LET v == ParseValue(text, SkipWs(text, c + 1))
                       IN IF ~v.ok THEN ParseFail
                          ELSE LET e == SkipWs(text, v.next)
                                   members == Append(acc, Member(k.value.chars, v.value))
                               IN IF e > Len(text) THEN ParseFail
                                  ELSE IF text[e] = "}" THEN Parsed(Obj(members), e + 1)
                                  ELSE IF text[e] = ","
                                  THEN ParseMembers(text, SkipWs(text, e + 1), members)
                                  ELSE ParseFail

\* JSON.parse(text): the value, or the SyntaxError
JSONparse(text) ==
  LET v == ParseValue(text, SkipWs(text, 1))
  IN IF v.ok /\ SkipWs(text, v.next) = Len(text) + 1
     THEN [ok |-> TRUE, value |-> v.value]
     ELSE [ok |-> FALSE, value |-> Str(<<>>)]

RECURSIVE Escaped(_)
Escaped(chars) ==
  IF chars = <<>> THEN <<>>
  ELSE (IF Head(chars) = Tab THEN <<Backslash, "t">>
        ELSE IF Head(chars) \in {Quote, Backslash} THEN <<Backslash, Head(chars)>>
        ELSE <<Head(chars)>>) \o Escaped(Tail(chars))

RECURSIVE JSONstringify(_)
RECURSIVE StringifyMembers(_)

\* JSON.stringify(value)
JSONstringify(value) ==
  IF value.type = "string" THEN <<Quote>> \o Escaped(value.chars) \o <<Quote>>
  ELSE <<"{">> \o StringifyMembers(value.members) \o <<"}">>

StringifyMembers(members) ==
  IF members = <<>> THEN <<>>
  ELSE <<Quote>> \o Escaped(Head(members).key) \o <<Quote, ":">>
         \o JSONstringify(Head(members).value)
         \o (IF Len(members) > 1 THEN <<",">> ELSE <<>>)
         \o StringifyMembers(Tail(members))

(* ---------------- attemptJsonRepair ---------------- *)

\* repaired.replace(/([^\\])\t/g, '$1\\t'): left to right, every tab that follows
\* a character other than a backslash becomes backslash t
RECURSIVE EscapeTabs(_, _)
EscapeTabs(text, pos) ==
  IF pos > Len(text) THEN <<>>
  ELSE IF pos + 1 <= Len(text) /\ text[pos] # Backslash /\ text[pos + 1] = Tab
  THEN <<text[pos], Backslash, "t">> \o EscapeTabs(text, pos + 2)
  ELSE <<text[pos]>> \o EscapeTabs(text, pos + 1)

Positions(text, c) == {k \in 1..Len(text) : text[k] = c}
First(S) == CHOOSE k \in S : \A j \in S : k <= j
Last(S) == CHOOSE k \in S : \A j \in S : k >= j

\* substring(firstBrace, lastBrace + 1) when both braces are found in order
ClipToBraces(text) ==
  LET opens == Positions(text, "{")
      closes == Positions(text, "}")
  IN IF opens # {} /\ closes # {} /\ Last(closes) > First(opens)
     THEN SubSeq(text, First(opens), Last(closes))
     ELSE text

\* attemptJsonRepair(jsonText): the tab replacement, then the clipping
attemptJsonRepair(jsonText) == ClipToBraces(EscapeTabs(jsonText, 1))

(* ---------------- extraction stages of analyzeBatch ---------------- *)

NoMatch == [found |-> FALSE, group |-> <<>>]
Match(group) == [found |-> TRUE, group |-> group]

\* /```(?:json)?\s*(\{[\s\S]*?\})\s*```/ tried at the fence at position s
FencedAt(text, s) ==
  LET afterTag == IF s + 1 <= Len(text) /\ text[s + 1] = "json" THEN s + 2 ELSE s + 1
      open == SkipWs(text, afterTag)
      ends == {e \in Positions(text, "}") :
                 /\ e > open
                 /\ SkipWs(text, e + 1) <= Len(text)
                 /\ text[SkipWs(text, e + 1)] = Fence}
  IN IF open <= Len(text) /\ text[open] = "{" /\ ends # {}
     THEN Match(SubSeq(text, open, First(ends)))
     ELSE NoMatch

\* pattern 1: the leftmost fence at which the pattern matches
FencedBlock(text) ==
  LET starts == {s \in Positions(text, Fence) : FencedAt(text, s).found}
  IN IF starts # {} THEN FencedAt(text, First(starts)) ELSE NoMatch

\* pattern 2, /(\{[\s\S]*\})/: the first { to the last }
PlainJson(text) ==
  LET opens == Positions(text, "{")
      closes == Positions(text, "}")
  IN IF opens # {} /\ closes # {} /\ Last(closes) > First(opens)
     THEN Match(SubSeq(text, First(opens), Last(closes)))
     ELSE NoMatch

RECURSIVE SkipMarkerGap(_, _)
SkipMarkerGap(text, pos) ==
  IF pos <= Len(text) /\ text[pos] \in Whitespace \cup {":"}
  THEN SkipMarkerGap(text, pos + 1) ELSE pos

\* /JSON[:\s]+(\{[\s\S]*\})/i tried at the word at position s
MarkedAt(text, s) ==
  LET open == SkipMarkerGap(text, s + 1)
      closes == {e \in Positions(text, "}") : e > open}
  IN IF open > s + 1 /\ open <= Len(text) /\ text[open] = "{" /\ closes # {}
     THEN Match(SubSeq(text, open, Last(closes)))
     ELSE NoMatch

\* pattern 3: the leftmost JSON marker at which the pattern matches
MarkedJson(text) ==
  LET starts == {s \in Positions(text, "json") : MarkedAt(text, s).found}
  IN IF starts # {} THEN MarkedAt(text, First(starts)) ELSE NoMatch

\* for (const pattern of patterns): the first pattern that matches gives jsonText
JsonTextOf(text) ==
  IF FencedBlock(text).found THEN FencedBlock(text).group
  ELSE IF PlainJson(text).found THEN PlainJson(text).group
  ELSE IF MarkedJson(text).found THEN MarkedJson(text).group
  ELSE text

\* a property of a parsed value is truthy: present, and not the empty string
Truthy(value, key) ==
  /\ value.type = "object"
  /\ \E k \in 1..Len(value.members) :
       /\ value.members[k].key = <<key>>
       /\ value.members[k].value # Str(<<>>)

\* pattern search, direct parse, repair on failure, required fields
Extract(text) ==
  LET jsonText == JsonTextOf(text)
      direct == JSONparse(jsonText)
      repaired == JSONparse(attemptJsonRepair(jsonText))
      analysisResult == IF direct.ok THEN direct.value ELSE repaired.value
  IN IF ~direct.ok /\ ~repaired.ok
     THEN [ok |-> FALSE, error |-> "ExtractionError", value |-> Str(<<>>)]
     ELSE IF ~Truthy(analysisResult, "project_summary") \/ ~Truthy(analysisResult, "grades")
     THEN [ok |-> FALSE, error |-> "SchemaError", value |-> Str(<<>>)]
     ELSE [ok |-> TRUE, error |-> "none", value |-> analysisResult]

\* string values a record may carry
StringValues ==
  {<<"x">>, <<"x", Tab, "x">>, <<"x", ",", "}">>, <<Quote, "x", Quote>>,
   <<Backslash, "t">>, <<Fence, "{", "}", Fence>>}

\* records with both required fields
SampleRecords ==
  {Obj(<<Member(<<"project_summary">>, Obj(<<Member(<<"name">>, Str(a))>>)),
         Member(<<"grades">>, Obj(<<Member(<<"overall">>, Str(b))>>))>>) :
     a \in StringValues, b \in StringValues}

\* the closing braces of a serialized record that close a non-empty object
RECURSIVE ClosingBraces(_, _, _)
ClosingBraces(text, pos, inString) ==
  IF pos > Len(text) THEN {}
  ELSE IF inString
  THEN IF text[pos] = Backslash THEN ClosingBraces(text, pos + 2, TRUE)
       ELSE ClosingBraces(text, pos + 1, text[pos] # Quote)
  ELSE (IF text[pos] = "}" /\ text[pos - 1] # "{" THEN {pos} ELSE {})
         \cup ClosingBraces(text, pos + 1, text[pos] = Quote)

InsertBefore(text, pos, c) ==
  SubSeq(text, 1, pos - 1) \o <<c>> \o SubSeq(text, pos, Len(text))

\* what the remote service may send for record r: its serialization, the
\* serialization in a fenced block or after prose, or the serialization with
\* one trailing comma
ResponsesFor(r) ==
  LET text == JSONstringify(r)
  IN {text, <<Fence, "json", " ">> \o text \o <<" ", Fence>>,
      <<"Here", " ", "json", ":", " ">> \o text}
       \cup {InsertBefore(text, k, ",") : k \in ClosingBraces(text, 1, FALSE)}

(* ---------------- calculateCost (Gemini script) ---------------- *)

\* a JavaScript number: an exact value, or NaN
Num(v) == [nan |-> FALSE, v |-> v]
NaN == [nan |-> TRUE, v |-> 0]

Times(x, y) == IF x.nan \/ y.nan THEN NaN ELSE Num(x.v * y.v)
Plus(x, y) == IF x.nan \/ y.nan THEN NaN ELSE Num(x.v + y.v)

\* PRICING: USD per 1M tokens, held in cents
PRICING ==
  [m \in {"gemini-2.5-flash", "gemini-2.5-pro"} |->
     IF m = "gemini-2.5-flash"
     THEN [input |-> 30, output |-> 250]
     ELSE [input_under_200k |-> 125, input_over_200k |-> 250,
           output_under_200k |-> 1000, output_over_200k |-> 1500]]

promptThreshold == 200000

\* PRICING[modelName] || PRICING['gemini-2.5-flash']
PricingOf(name) ==
  IF name \in DOMAIN PRICING THEN PRICING[name] ELSE PRICING["gemini-2.5-flash"]

\* pricing.<field>: a missing property reads as undefined, which every
\* product turns into NaN
Rate(pricing, field) ==
  IF field \in DOMAIN pricing THEN Num(pricing[field]) ELSE NaN

AtOrOverThreshold(tokens) == tokens >= promptThreshold

\* tokens > promptThreshold, the test that picks the tier
OverThreshold(tokens) == tokens > promptThreshold

\* costs are held in units of 10^-8 USD: tokens * cents per 1M tokens
calculateCost(usage, name) ==
  LET pricing == PricingOf(name)
      inputRate ==
        IF name = "gemini-2.5-flash" THEN Rate(pricing, "input")
        ELSE IF OverThreshold(usage.prompt_tokens)
             THEN Rate(pricing, "input_over_200k")
             ELSE Rate(pricing, "input_under_200k")
      outputRate ==
        IF name = "gemini-2.5-flash" THEN Rate(pricing, "output")
        ELSE IF OverThreshold(usage.completion_tokens)
             THEN Rate(pricing, "output_over_200k")
             ELSE Rate(pricing, "output_under_200k")
      inputCost == Times(Num(usage.prompt_tokens), inputRate)
      outputCost == Times(Num(usage.completion_tokens), outputRate)
  IN [input_cost_usd |-> inputCost,
      output_cost_usd |-> outputCost,
      total_cost_usd |-> Plus(inputCost, outputCost),
      model |-> name]

\* PRICING of the Azure script: USD per 1M tokens, held in cents
PRICING_AZURE == [input |-> 15, output |-> 60]

\* calculateCost of the Azure script: flat rates, the model name is not read
calculateCostAzure(usage, name) ==
  LET inputCost == Times(Num(usage.prompt_tokens), Num(PRICING_AZURE.input))
      outputCost == Times(Num(usage.completion_tokens), Num(PRICING_AZURE.output))
  IN [input_cost_usd |-> inputCost,
      output_cost_usd |-> outputCost,
      total_cost_usd |-> Plus(inputCost, outputCost),
      model |-> "GPT-4o-mini (Azure)"]

\* token counts on both sides of the tier threshold
TokenCounts == {0, 1000, promptThreshold, promptThreshold + 1, 1000000}

\* the two priced models and two names the table does not hold
ModelNames == {"gemini-2.5-flash", "gemini-2.5-pro", "gemini-1.5-pro", "gpt-4o-mini"}

FilesOfLength(n, len) == [k \in 1..n |-> [name |-> k, content |-> len]]

\* nothing planned, dispatched or collected yet
NotStarted ==
  /\ pc = "start"
  /\ batches = <<>>
  /\ i = 0
  /\ task = <<>>
  /\ results = <<>>
  /\ errors = <<>>
  /\ hist = <<>>
  /\ debugFiles = {}
  /\ outcome = "running"
  /\ overtaken = FALSE

\* no run under way: nothing read, nothing started
NoRun ==
  /\ NotStarted
  /\ fileContents = <<>>
  /\ batchSize = 1
  /\ maxInputTokens = MaxTokenBudget
  /\ concurrency = 1

\* calculateCost not called
CostIdle ==
  /\ tokenUsage = [prompt_tokens |-> 0, completion_tokens |-> 0, total_tokens |-> 0]
  /\ modelName = "gemini-2.5-flash"
  /\ costs = NoValue

\* aggregateResults not called
AggregateIdle ==
  /\ batchResults = <<>>
  /\ aggregated = NoValue

\* no response text under extraction
ExtractIdle ==
  /\ record = Str(<<>>)
  /\ responseText = <<>>
  /\ extracted = NoValue
  /\ reparsed = NoValue

InitCommon ==
  /\ NotStarted
  /\ CostIdle
  /\ AggregateIdle
  /\ ExtractIdle

\* a run of analyzeCodebaseInBatches
Init ==
  /\ InitCommon
  /\ \E n \in 0..MaxFiles : fileContents = FilesOfLength(n, 1)
  /\ batchSize \in 1..MaxBatchSize
  /\ maxInputTokens = MaxTokenBudget
  /\ concurrency \in 1..MaxConcurrency

(* ---------------- actions ---------------- *)

\* const batches = createBatches(fileContents, CONFIG.BATCH_SIZE)
Plan ==
  /\ pc = "start"
  /\ batches' = createBatches(fileContents, batchSize)
  /\ task' = [b \in 1..Len(batches') |-> IdleTask]
  /\ hist' = [b \in 1..Len(batches') |-> NoHistory]
  /\ pc' = "planned"
  /\ UNCHANGED overtaken
  /\ UNCHANGED unitVars
  /\ UNCHANGED <<fileContents, batchSize, maxInputTokens, concurrency, i,
                 results, errors, debugFiles, outcome>>

\* processBatchesInParallel is entered: the first wave is launched, or the
\* loop is never entered
StartDispatch ==
  /\ pc = "planned"
  /\ i' = 0
  /\ IF 0 < Len(batches)
     THEN /\ task' = Launched(Chunk(0))
          /\ hist' = Called(Chunk(0))
          /\ pc' = "dispatch"
     ELSE /\ task' = task
          /\ hist' = hist
          /\ pc' = "returned"
  /\ UNCHANGED overtaken
  /\ UNCHANGED unitVars
  /\ UNCHANGED <<fileContents, batchSize, maxInputTokens, concurrency, batches,
                 results, errors, debugFiles, outcome>>

\* one attempt of analyzeBatchWithRetry completes with reply resp
\* a batch before b in the current wave is still in flight
Overtakes(b) == \E a \in Chunk(i) : a < b /\ InFlight(a)

\* the catch block of analyzeBatchWithRetry receives `error` from attempt
\* task[b].attempt: back off and retry, or give up with the last error
Thrown(b, error) ==
  LET le == NextLastError(task[b].lastError, error)
  IN IF Retryable(task[b].attempt, error)
     THEN /\ task' = [task EXCEPT ![b] = [@ EXCEPT !.phase = "sleep",
                                                   !.lastError = le]]
          /\ hist' = [hist EXCEPT ![b] =
                        [@ EXCEPT !.failures = @ + 1, !.raised = error,
                                  !.slept = Append(@, RetryDelay(task[b].attempt))]]
     ELSE /\ task' = [task EXCEPT ![b] = [@ EXCEPT !.phase = "failed",
                                                   !.lastError = NoError,
                                                   !.error = le]]
          /\ hist' = [hist EXCEPT ![b] =
                        [@ EXCEPT !.failures = @ + 1, !.raised = error]]

\* the remote call of batch b's current attempt ends with reply resp and
\* analyzeBatch runs up to its return, its throw, or its await of the debug
\* file write
Attempt(b, resp) ==
  /\ pc = "dispatch"
  /\ b \in DOMAIN task
  /\ task[b].phase = "call"
  /\ LET r == analyzeBatch(batches[b], b, task[b].attempt, resp)
     IN IF r.ok
        THEN /\ task' = [task EXCEPT ![b] = [@ EXCEPT !.phase = "ok",
                                                      !.lastError = NoError,
                                                      !.value = r.value]]
             /\ hist' = hist
        ELSE IF r.debug
        THEN /\ task' = [task EXCEPT ![b] = [@ EXCEPT !.phase = "writing"]]
             /\ hist' = [hist EXCEPT ![b] =
                           [@ EXCEPT !.unparsed = @ \cup {task[b].attempt}]]
        ELSE Thrown(b, r.error)
  /\ UNCHANGED unitVars
  /\ UNCHANGED <<pc, fileContents, batchSize, maxInputTokens, concurrency,
                 batches, i, results, errors, debugFiles, outcome>>

AttemptReturns(b, resp) ==
  /\ Attempt(b, resp)
  /\ UNCHANGED overtaken

\* the same step, with the order of completion within the wave observed
AttemptReturnsObserved(b, resp) ==
  /\ Attempt(b, resp)
  /\ overtaken' = (overtaken \/ (task'[b].phase \in {"ok", "failed"} /\ Overtakes(b)))

\* await fs.writeFile(debugFile, responseText) completes, then analyzeBatch
\* throws the extraction error
DebugWritten(b) ==
  /\ pc = "dispatch"
  /\ b \in DOMAIN task
  /\ task[b].phase = "writing"
  /\ debugFiles' = debugFiles \cup {<<b, task[b].attempt>>}
  /\ Thrown(b, ParseFailure(task[b].attempt))
  /\ UNCHANGED overtaken
  /\ UNCHANGED unitVars
  /\ UNCHANGED <<pc, fileContents, batchSize, maxInputTokens, concurrency,
                 batches, i, results, errors, outcome>>

\* the backoff timer of batch b fires: the next attempt starts
WakeUp(b) ==
  /\ pc = "dispatch"
  /\ b \in DOMAIN task
  /\ task[b].phase = "sleep"
  /\ task' = [task EXCEPT ![b] = [@ EXCEPT !.phase = "call", !.attempt = @ + 1]]
  /\ hist' = Called({b})
  /\ UNCHANGED overtaken
  /\ UNCHANGED unitVars
  /\ UNCHANGED <<pc, fileContents, batchSize, maxInputTokens, concurrency,
                 batches, i, results, errors, debugFiles, outcome>>

\* as WaveSettled, but a failed batch of the wave ends the loop (Promise.all)
WaveSettledAbortOnError ==
  /\ pc = "dispatch"
  /\ AllSettled(Chunk(i))
  /\ LET c == CollectFrom(i + 1, Min(i + concurrency, Len(batches)), results, errors)
         next == i + concurrency
     IN /\ results' = c.results
        /\ errors' = c.errors
        /\ i' = next
        /\ IF next < Len(batches) /\ Len(c.errors) = 0
           THEN /\ task' = Launched(Chunk(next))
                /\ hist' = Called(Chunk(next))
                /\ pc' = "dispatch"
           ELSE /\ task' = task
                /\ hist' = hist
                /\ pc' = "returned"
  /\ UNCHANGED overtaken
  /\ UNCHANGED unitVars
  /\ UNCHANGED <<fileContents, batchSize, maxInputTokens, concurrency, batches,
                 debugFiles, outcome>>

\* Promise.allSettled resolves: the wave's values are collected, then the
\* next wave is launched or the function returns
WaveSettled ==
  /\ pc = "dispatch"
  /\ AllSettled(Chunk(i))
  /\ LET c == CollectFrom(i + 1, Min(i + concurrency, Len(batches)), results, errors)
         next == i + concurrency
     IN /\ results' = c.results
        /\ errors' = c.errors
        /\ i' = next
        /\ IF next < Len(batches)
           THEN /\ task' = Launched(Chunk(next))
                /\ hist' = Called(Chunk(next))
                /\ pc' = "dispatch"
           ELSE /\ task' = task
                /\ hist' = hist
                /\ pc' = "returned"
  /\ UNCHANGED overtaken
  /\ UNCHANGED unitVars
  /\ UNCHANGED <<fileContents, batchSize, maxInputTokens, concurrency, batches,
                 debugFiles, outcome>>

TotalTokensOfLast(batchResultList) ==
  IF batchResultList = <<>>
  THEN [prompt_tokens |-> 0, completion_tokens |-> 0, total_tokens |-> 0]
  ELSE batchResultList[Len(batchResultList)].token_usage

\* totalTokens: the usage of every batch result, added field by field
RECURSIVE TotalTokens(_)
TotalTokens(batchResultList) ==
  IF batchResultList = <<>>
  THEN [prompt_tokens |-> 0, completion_tokens |-> 0, total_tokens |-> 0]
  ELSE LET before == TotalTokens(SubSeq(batchResultList, 1, Len(batchResultList) - 1))
           batchResult == batchResultList[Len(batchResultList)]
       IN [prompt_tokens |-> before.prompt_tokens + batchResult.token_usage.prompt_tokens,
           completion_tokens |->
             before.completion_tokens + batchResult.token_usage.completion_tokens,
           total_tokens |-> before.total_tokens + batchResult.token_usage.total_tokens]

DEPLOYMENT_NAME == "openai-o4mini"

\* the rest of analyzeCodebaseInBatches: tokenUsage holds totalTokens, costs
\* the estimated cost written on the report
Aggregate ==
  /\ pc = "returned"
  /\ pc' = "done"
  /\ outcome' = IF Len(results) = 0 THEN "AllBatchesFailed"
                ELSE IF ~HasValidBase(results) THEN "NoValidBase"
                ELSE "report"
  /\ tokenUsage' = TotalTokens(results)
  /\ costs' = IF outcome' = "report"
              THEN <<calculateCostAzure(TotalTokens(results), DEPLOYMENT_NAME)>>
              ELSE NoValue
  /\ UNCHANGED overtaken
  /\ UNCHANGED <<modelName, batchResults, aggregated, record, responseText,
                 extracted, reparsed>>
  /\ UNCHANGED <<fileContents, batchSize, maxInputTokens, concurrency, batches,
                 i, task, results, errors, hist, debugFiles>>

Next ==
  \/ Plan
  \/ StartDispatch
  \/ \E b \in DOMAIN task, resp \in RunResponses : AttemptReturns(b, resp)
  \/ \E b \in DOMAIN task : WakeUp(b)
  \/ WaveSettled
  \/ Aggregate

Spec == Init /\ [][Next]_vars

(* ---------------- a run with the order of completion observed ---------------- *)

InitOrder ==
  /\ InitCommon
  /\ \E n \in 0..MaxOrderFiles : fileContents = FilesOfLength(n, 1)
  /\ batchSize \in 1..MaxOrderBatchSize
  /\ maxInputTokens = MaxTokenBudget
  /\ concurrency \in 1..MaxOrderConcurrency

NextOrder ==
  \/ Plan
  \/ StartDispatch
  \/ \E b \in DOMAIN task, resp \in RunResponses : AttemptReturnsObserved(b, resp)
  \/ \E b \in DOMAIN task : WakeUp(b)
  \/ WaveSettled
  \/ Aggregate

SpecOrder == InitOrder /\ [][NextOrder]_vars

(* ---------------- createBatches on its own ---------------- *)

FileSequences(maxFiles, maxLen) ==
  UNION {{[k \in 1..n |-> [name |-> k, content |-> f[k]]] : f \in [1..n -> 1..maxLen]} :
           n \in 0..maxFiles}

InitPlan ==
  /\ InitCommon
  /\ fileContents \in FileSequences(MaxPlanFiles, MaxContentLen)
  /\ batchSize \in 1..MaxPlanBatchSize
  /\ maxInputTokens \in 0..MaxTokenBudget
  /\ concurrency = 1

NextPlan == Plan

SpecPlan == InitPlan /\ [][NextPlan]_vars

(* ---------------- calculateCost on its own ---------------- *)

TokenUsages ==
  {[prompt_tokens |-> p, completion_tokens |-> c, total_tokens |-> p + c] :
     p \in TokenCounts, c \in TokenCounts}

InitCost ==
  /\ NoRun
  /\ AggregateIdle
  /\ ExtractIdle
  /\ tokenUsage \in TokenUsages
  /\ modelName \in ModelNames
  /\ costs = NoValue

CalculateCost ==
  /\ costs = NoValue
  /\ costs' = <<calculateCost(tokenUsage, modelName)>>
  /\ UNCHANGED <<runVars, tokenUsage, modelName, batchResults, aggregated,
                 record, responseText, extracted, reparsed>>

CalculateCostAzure ==
  /\ costs = NoValue
  /\ costs' = <<calculateCostAzure(tokenUsage, modelName)>>
  /\ UNCHANGED <<runVars, tokenUsage, modelName, batchResults, aggregated,
                 record, responseText, extracted, reparsed>>

NextCost == CalculateCost \/ CalculateCostAzure

SpecCost == InitCost /\ [][NextCost]_vars

(* ---------------- aggregateResults on its own ---------------- *)

InitAggregate ==
  /\ NoRun
  /\ CostIdle
  /\ ExtractIdle
  /\ batchResults \in SeqsUpTo(ScoredResults, MaxAggBatches)
                        \cup SeqsUpTo(ResultsWithProblems, MaxAggBatches)
                        \cup SeqsUpTo(TemplateCandidates, MaxAggBatches)
                        \cup SeqsUpTo(ResultsWithTopIssues, MaxAggBatches)
                        \cup SeqsUpTo(ResultsWithRecommendations, MaxAggBatches)
  /\ aggregated = NoValue

RECURSIVE SumOfSizes(_)
SumOfSizes(bs) ==
  IF bs = <<>> THEN 0 ELSE Head(bs)._actual_batch_size + SumOfSizes(Tail(bs))

\* aggregateResults(results, fileContents.length, batches.length) after a run
\* in which every batch succeeded
AggregateResults ==
  /\ aggregated = NoValue
  /\ aggregated' = <<aggregateResults(batchResults, SumOfSizes(batchResults), Len(batchResults))>>
  /\ batchResults' = InputAfter(batchResults, aggregated'[1])
  /\ UNCHANGED <<runVars, tokenUsage, modelName, costs,
                 record, responseText, extracted, reparsed>>

NextAggregate == AggregateResults

SpecAggregate == InitAggregate /\ [][NextAggregate]_vars

(* ---------------- the extraction stages on their own ---------------- *)

InitExtract ==
  /\ NoRun
  /\ CostIdle
  /\ AggregateIdle
  /\ record \in SampleRecords
  /\ responseText \in ResponsesFor(record)
  /\ extracted = NoValue
  /\ reparsed = NoValue

\* lines 764-808 of analyzeBatch on responseText
ExtractRecord ==
  /\ extracted = NoValue
  /\ extracted' = <<Extract(responseText)>>
  /\ UNCHANGED <<runVars, tokenUsage, modelName, costs, batchResults, aggregated,
                 record, responseText, reparsed>>

\* JSON.parse(attemptJsonRepair(responseText))
RepairAndParse ==
  /\ reparsed = NoValue
  /\ reparsed' = <<JSONparse(attemptJsonRepair(responseText))>>
  /\ UNCHANGED <<runVars, tokenUsage, modelName, costs, batchResults, aggregated,
                 record, responseText, extracted>>

NextExtract ==
  \/ ExtractRecord
  \/ RepairAndParse

SpecExtract == InitExtract /\ [][NextExtract]_vars

(* ---------------- a run of one batch, every kind of reply ---------------- *)

\* a run whose token usage is followed
InitUsage ==
  /\ InitCommon
  /\ \E n \in 1..MaxUsageFiles : fileContents = FilesOfLength(n, 1)
  /\ batchSize = 1
  /\ maxInputTokens = MaxTokenBudget
  /\ concurrency \in 1..MaxUsageConcurrency

NextUsage ==
  \/ Plan
  \/ StartDispatch
  \/ \E b \in DOMAIN task, resp \in UsageResponses : AttemptReturns(b, resp)
  \/ \E b \in DOMAIN task : DebugWritten(b)
  \/ \E b \in DOMAIN task : WakeUp(b)
  \/ WaveSettled
  \/ Aggregate

SpecUsage == InitUsage /\ [][NextUsage]_vars

InitBatch ==
  /\ InitCommon
  /\ \E n \in 1..MaxBatchFiles : fileContents = FilesOfLength(n, 1) /\ batchSize = n
  /\ maxInputTokens = MaxBatchFiles
  /\ concurrency = 1

NextBatch ==
  \/ Plan
  \/ StartDispatch
  \/ \E b \in DOMAIN task, resp \in AllResponses : AttemptReturns(b, resp)
  \/ \E b \in DOMAIN task : DebugWritten(b)
  \/ \E b \in DOMAIN task : WakeUp(b)
  \/ WaveSettled
  \/ Aggregate

SpecBatch == InitBatch /\ [][NextBatch]_vars

(* ---------------- a run under the scheduling of the event loop ---------------- *)

InitFair ==
  /\ InitCommon
  /\ \E n \in 0..MaxFairFiles : fileContents = FilesOfLength(n, 1)
  /\ batchSize = 1
  /\ maxInputTokens = 1
  /\ concurrency \in 1..MaxFairConcurrency

\* every remote call returns or fails, every timer fires, and the synchronous
\* continuations of the run are executed
Fairness ==
  /\ WF_vars(Plan)
  /\ WF_vars(StartDispatch)
  /\ \A b \in 1..MaxFairFiles : WF_vars(\E resp \in RunResponses : AttemptReturns(b, resp))
  /\ \A b \in 1..MaxFairFiles : WF_vars(WakeUp(b))
  /\ WF_vars(WaveSettled)
  /\ WF_vars(Aggregate)

SpecFair == InitFair /\ [][Next]_vars /\ Fairness

(* ======================= properties ======================= *)

Batches == DOMAIN task
InFlightBatches == {b \in Batches : InFlight(b)}
OkBatches == {b \in Batches : task[b].phase = "ok"}
FailedBatches == {b \in Batches : task[b].phase = "failed"}
WaveOf(b) == (b - 1) \div concurrency
Returned == pc \in {"returned", "done"}

\* C1: wave barrier - no batch of a later wave has started its first attempt
\* while a batch of an earlier wave is not settled (succeeded, or failed after
\* all its attempts and backoff waits).
C1_WaveBarrier ==
  \A b \in Batches : \A c \in Batches :
    (WaveOf(c) > WaveOf(b) /\ task[c].phase # "idle")
      => (Settled(b) /\ (task[b].phase = "failed" => hist[b].calls = RETRY_ATTEMPTS))

C1_Witness ==
  \E b \in Batches : \E c \in Batches :
    /\ WaveOf(c) = WaveOf(b) + 1
    /\ task[c].phase = "call" /\ hist[c].calls = 1
    /\ task[b].phase = "failed"
    /\ Len(hist[b].slept) = RETRY_ATTEMPTS - 1

\* C2: concurrency ceiling - the batches launched and not yet settled (call in
\* flight or waiting in backoff) never number more than concurrency.
C2_ConcurrencyCeiling == Cardinality(InFlightBatches) <= concurrency

C2_Witness ==
  /\ concurrency = 3
  /\ Cardinality(InFlightBatches) = 3
  /\ \E b \in InFlightBatches : task[b].phase = "sleep"
  /\ \E b \in InFlightBatches : task[b].phase = "call"
  /\ Len(batches) > 3

\* C3: failure isolation - whatever the other batches do, every batch of the
\* plan is eventually dispatched and runs to its own success or to the
\* exhaustion of its attempts.
C3_FailureIsolation ==
  <>(/\ pc # "start"
     /\ \A b \in Batches :
          \/ task[b].phase = "ok" /\ hist[b].calls >= 1
          \/ task[b].phase = "failed" /\ hist[b].calls = RETRY_ATTEMPTS)

C3_Witness ==
  /\ Len(batches) = 3
  /\ concurrency = 2
  /\ task[1].phase = "failed"
  /\ task[2].phase = "ok"
  /\ task[3].phase = "ok"

\* the k-th smallest batch number of a set of batch numbers
KthOf(S, k) == CHOOSE b \in S : Cardinality({x \in S : x < b}) = k - 1

\* C4: processBatchesInParallel returns without raising and partitions the
\* plan - each succeeded batch has its result in results, each failed batch
\* has exactly one entry in errors with its 1-based number and the names of
\* its items, and |results| + |errors| = number of batches.
C4_Partition ==
  Returned =>
    /\ Len(results) + Len(errors) = Len(batches)
    /\ OkBatches \cup FailedBatches = 1..Len(batches)
    /\ Len(results) = Cardinality(OkBatches)
    /\ \A k \in 1..Len(results) : results[k] = task[KthOf(OkBatches, k)].value[1]
    /\ \A b \in FailedBatches :
         Cardinality({k \in 1..Len(errors) : errors[k].batchNumber = b}) = 1
    /\ \A k \in 1..Len(errors) :
         /\ errors[k].batchNumber \in FailedBatches
         /\ errors[k].files = Names(batches[errors[k].batchNumber])
         /\ errors[k].error = task[errors[k].batchNumber].error

C4_Witness ==
  /\ pc = "returned"
  /\ Len(batches) = 5
  /\ concurrency = 3
  /\ FailedBatches = {2}
  /\ hist[2].calls = RETRY_ATTEMPTS
  /\ Len(results) = 4
  /\ Len(errors) = 1
  /\ errors[1].batchNumber = 2

\* C5: retry invocation count - a batch that succeeded after k failed
\* attempts (k < N) made exactly k+1 invocations and makes no more; a batch
\* whose attempts all failed made exactly N invocations and threw the error
\* of its last attempt.
C5_RetryInvocationCount ==
  \A b \in Batches :
    /\ task[b].phase = "ok" =>
         /\ hist[b].failures < RETRY_ATTEMPTS
         /\ hist[b].calls = hist[b].failures + 1
    /\ task[b].phase = "failed" =>
         /\ hist[b].failures = RETRY_ATTEMPTS
         /\ hist[b].calls = RETRY_ATTEMPTS
         /\ task[b].error = hist[b].raised
         /\ task[b].error.attempt = RETRY_ATTEMPTS

\* fails twice then succeeds: 3 invocations
C5_Witness ==
  /\ pc = "done"
  /\ \E b \in Batches :
       /\ task[b].phase = "ok" /\ hist[b].failures = 2 /\ hist[b].calls = 3

\* C6: backoff schedule - attempt 1 starts with no wait; the wait after failed
\* attempt k < N is RETRY_DELAY_MS * RETRY_BACKOFF^(k-1) and precedes attempt
\* k+1; no wait follows the final failed attempt.
C6_BackoffSchedule ==
  \A b \in Batches :
    LET h == hist[b] IN
    /\ \A k \in 1..Len(h.slept) : h.slept[k] = RETRY_DELAY_MS * Pow(RETRY_BACKOFF, k - 1)
    /\ Len(h.slept) >= 1 => h.slept[1] = 1000
    /\ Len(h.slept) >= 2 => h.slept[2] = 2000
    /\ task[b].phase = "call" => Len(h.slept) = h.calls - 1
    /\ task[b].phase = "sleep" => Len(h.slept) = h.calls /\ h.calls < RETRY_ATTEMPTS
    /\ task[b].phase = "ok" => Len(h.slept) = h.failures
    /\ task[b].phase = "failed" => Len(h.slept) = RETRY_ATTEMPTS - 1

C6_Witness ==
  \E b \in Batches :
    /\ task[b].phase = "failed"
    /\ hist[b].slept = <<1000, 2000>>

\* C7: a run fails only when zero batches succeeded - if at least one batch
\* returned a result from analyzeBatch, the run ends with a report.
C7_RunFailsOnlyWithoutSuccess ==
  (pc = "done" /\ Len(results) >= 1) => outcome = "report"

\* C8: schema check - every record analyzeBatch returns carries
\* project_summary, grades, the four category sub-sections and overall.
C8_SchemaCheckComplete ==
  \A b \in Batches :
    task[b].phase = "ok" =>
      /\ task[b].value[1].project_summary
      /\ task[b].value[1].grades
      /\ task[b].value[1].sections = GradeSections

RECURSIVE Flatten(_)
Flatten(ss) == IF ss = <<>> THEN <<>> ELSE Head(ss) \o Flatten(Tail(ss))

\* C9: createBatches neither drops, duplicates nor reorders - the batches
\* concatenated in output order are the input sequence.
C9_NoItemLost ==
  pc = "planned" =>
    /\ Flatten(batches) = fileContents
    /\ Len(Flatten(batches)) = Len(fileContents)

C9_Witness ==
  /\ pc = "planned"
  /\ Len(batches) >= 3
  /\ Len(fileContents) = 4
  /\ \E k \in 1..Len(batches) : Len(batches[k]) >= 2
  /\ \E k \in 1..(Len(batches) - 1) : Len(batches[k]) < batchSize

\* C10: every batch createBatches returns has at most batchSize items.
C10_BatchSizeBound ==
  pc = "planned" => \A k \in 1..Len(batches) : Len(batches[k]) <= batchSize

C10_Witness ==
  /\ pc = "planned"
  /\ Len(fileContents) > batchSize
  /\ batchSize >= 2
  /\ Len(batches[1]) = batchSize
  /\ Len(batches) >= 2

RECURSIVE SumTokens(_)
SumTokens(batch) ==
  IF batch = <<>> THEN 0
  ELSE estimateTokens(Head(batch).content) + SumTokens(Tail(batch))

\* C11: token budget - a batch whose estimated tokens (ceil(length/4) per
\* item) sum to more than the budget has exactly one item; so an item over the
\* budget on its own is alone in its batch and every batch of two or more
\* items sums to at most the budget.
C11_TokenBudget ==
  pc = "planned" =>
    /\ \A k \in 1..Len(batches) :
         SumTokens(batches[k]) > maxInputTokens => Len(batches[k]) = 1
    /\ \A k \in 1..Len(batches) : \A j \in 1..Len(batches[k]) :
         (batches[k][j].content + 3) \div 4 > maxInputTokens => Len(batches[k]) = 1

C11_Witness ==
  /\ pc = "planned"
  /\ batchSize >= 2
  /\ \E k \in 2..(Len(batches) - 1) :
       /\ Len(batches[k]) = 1
       /\ SumTokens(batches[k]) > maxInputTokens
       /\ SumTokens(batches[k - 1]) <= maxInputTokens
       /\ Len(batches[k - 1]) < batchSize

Report == aggregated[1].value[1]
AggregateReturned == aggregated # NoValue /\ aggregated[1].ok

\* C12: the final grade of an aggregated report is the step function of the
\* weighted score the report carries (one decimal): A iff >= 9.0, B iff in
\* [7.0, 9.0), C iff in [5.0, 7.0), D iff in [3.0, 5.0), F otherwise.
C12_GradeFromCarriedScore ==
  AggregateReturned =>
    LET ws == Report.overall.weighted_score
        g == Report.overall.final_grade
    IN /\ g = "A" <=> ws >= 90
       /\ g = "B" <=> (70 <= ws /\ ws < 90)
       /\ g = "C" <=> (50 <= ws /\ ws < 70)
       /\ g = "D" <=> (30 <= ws /\ ws < 50)
       /\ g = "F" <=> ws < 30

\* weight and score of the k-th batch result as the claim C13 reads them
WeightOfResult(k) ==
  IF batchResults[k]._actual_batch_size >= 1 THEN batchResults[k]._actual_batch_size ELSE 1
ScoreOfResult(k, c) ==
  IF c \in batchResults[k].sections THEN batchResults[k].score[c] ELSE 0

RECURSIVE SumUpTo(_, _)
SumUpTo(f, n) == IF n = 0 THEN 0 ELSE f[n] + SumUpTo(f, n - 1)

\* C13: for each of the four categories the aggregated score is
\* sum(score_i * w_i) / sum(w_i) over all batch results rounded to one decimal
\* (a half rounds up), w_i being the batch's _actual_batch_size, or 1 when
\* that is zero or missing; a batch result without the category counts with
\* score 0.  Scores are in tenths: a is the rounding of S / W iff
\* 2aW - W <= 2S < 2aW + W.
C13_WeightedCategoryScore ==
  AggregateReturned =>
    \A c \in Categories :
      LET n == Len(batchResults)
          S == SumUpTo([k \in 1..n |-> ScoreOfResult(k, c) * WeightOfResult(k)], n)
          W == SumUpTo([k \in 1..n |-> WeightOfResult(k)], n)
          a == Report.score[c]
      IN 2 * a * W - W <= 2 * S /\ 2 * S < 2 * a * W + W

\* scores 6 and 10 with sizes 1 and 3 give 9.0, and a result of size zero
\* weighs 1
C13_Witness ==
  /\ AggregateReturned
  /\ Len(batchResults) = 2
  /\ \/ /\ batchResults[1].score["architecture"] = 60
        /\ batchResults[1]._actual_batch_size = 1
        /\ batchResults[2].score["architecture"] = 100
        /\ batchResults[2]._actual_batch_size = 3
        /\ batchResults[2].total_files # 3
        /\ Report.score["architecture"] = 90
     \/ /\ batchResults[1].score["architecture"] = 60
        /\ batchResults[1]._actual_batch_size = 0
        /\ batchResults[2].score["architecture"] = 100
        /\ batchResults[2]._actual_batch_size = 3
        /\ Report.score["architecture"] = 90

InputProblems == AllOf(batchResults, "common_problems")

RECURSIVE SumOccurrences(_, _)
SumOccurrences(problems, title) ==
  IF problems = <<>> THEN 0
  ELSE (IF Head(problems).title = title THEN Head(problems).occurrences ELSE 0)
         + SumOccurrences(Tail(problems), title)

\* C14: the merged common_problems hold exactly one problem per distinct
\* title of the input; its occurrences are the sum of the occurrences of all
\* input problems of that title, and its affected files are the duplicate-free
\* union of theirs.
C14_ProblemMerge ==
  AggregateReturned =>
    LET out == Report.common_problems
        titles == {InputProblems[k].title : k \in 1..Len(InputProblems)}
    IN /\ {out[k].title : k \in 1..Len(out)} = titles
       /\ Len(out) = Cardinality(titles)
       /\ \A k \in 1..Len(out) :
            /\ out[k].occurrences = SumOccurrences(InputProblems, out[k].title)
            /\ \A x, y \in 1..Len(out[k].affected_files) :
                 out[k].affected_files[x] = out[k].affected_files[y] => x = y
            /\ {out[k].affected_files[x] : x \in 1..Len(out[k].affected_files)}
                 = UNION {{InputProblems[j].affected_files[x] :
                             x \in 1..Len(InputProblems[j].affected_files)} :
                          j \in {j \in 1..Len(InputProblems) :
                                   InputProblems[j].title = out[k].title}}

FailureKinds == {"RemoteCallError", "ExtractionError", "SchemaError"}

\* C15: all failure kinds are retried uniformly - whichever way an attempt
\* fails (remote call, unrecoverable extraction, schema check), a failure of
\* attempt k < N is followed by the wait RETRY_DELAY_MS * RETRY_BACKOFF^(k-1)
\* and a further attempt, and only the failure of attempt N ends the loop.
C15_UniformRetry ==
  [][\A b \in Batches : \A kind \in FailureKinds :
       (hist'[b].failures = hist[b].failures + 1 /\ hist'[b].raised.kind = kind) =>
         IF task[b].attempt < RETRY_ATTEMPTS
         THEN /\ task'[b].phase = "sleep"
              /\ task'[b].attempt = task[b].attempt
              /\ hist'[b].slept =
                   Append(hist[b].slept,
                          RETRY_DELAY_MS * Pow(RETRY_BACKOFF, task[b].attempt - 1))
         ELSE /\ task'[b].phase = "failed"
              /\ hist'[b].slept = hist[b].slept
              /\ hist[b].calls = RETRY_ATTEMPTS]_vars

DebugAttempts(b) == {f[2] : f \in {g \in debugFiles : g[1] = b}}

\* an unrecoverable extraction at attempt 1, another kind of failure at
\* attempt 2 and a schema failure at attempt 3: N calls, both waits
C15_Witness ==
  \E b \in Batches :
    /\ task[b].phase = "failed"
    /\ task[b].error.kind = "SchemaError"
    /\ DebugAttempts(b) = {1}
    /\ hist[b].calls = RETRY_ATTEMPTS
    /\ hist[b].slept = <<1000, 2000>>

C17_RepairRoundTrip ==
  (/\ reparsed # NoValue
   /\ \E k \in ClosingBraces(JSONstringify(record), 1, FALSE) :
        responseText = InsertBefore(JSONstringify(record), k, ","))
    => (reparsed[1].ok /\ reparsed[1].value = record)

\* C18: extraction is idempotent on already-valid input - for every
\* schema-valid record r, the extraction stages of analyzeBatch (pattern
\* search, direct parse, repair on failure) applied to serialize(r) return a
\* record equal to r.
C18_ExtractIdempotent ==
  (extracted # NoValue /\ responseText = JSONstringify(record))
    => (extracted[1].ok /\ extracted[1].value = record)

\* C19: calculateCost never fails and, for a model name the pricing table does
\* not hold, returns the input, output and total costs computed with the rates
\* of the default entry (gemini-2.5-flash).
C19_UnknownModelFallsBack ==
  (costs # NoValue /\ costs[1].model = modelName /\ modelName \notin DOMAIN PRICING) =>
    LET default == PRICING["gemini-2.5-flash"]
        c == costs[1]
    IN /\ ~c.input_cost_usd.nan /\ ~c.output_cost_usd.nan /\ ~c.total_cost_usd.nan
       /\ c.input_cost_usd.v = tokenUsage.prompt_tokens * default.input
       /\ c.output_cost_usd.v = tokenUsage.completion_tokens * default.output
       /\ c.total_cost_usd.v = c.input_cost_usd.v + c.output_cost_usd.v

\* the values of the succeeded batches among batch numbers S, ascending
OkValues(S) ==
  LET ok == {b \in S : task[b].phase = "ok"}
  IN [k \in 1..Cardinality(ok) |-> task[KthOf(ok, k)].value[1]]

\* C20: completion-order insensitivity - whatever the order in which the
\* batches of a wave completed, the wave adds its successful results to
\* `results` in ascending plan order, and how the run ends is fixed by which
\* batches succeeded with which value, not by the order of completion.
C20_CompletionOrderInsensitive ==
  [][/\ (pc = "dispatch" /\ i' # i) => results' = results \o OkValues(Chunk(i))
     /\ pc' = "done" =>
          outcome' = IF OkBatches = {} THEN "AllBatchesFailed"
                     ELSE IF \E b \in OkBatches : IsValidBase(task[b].value[1])
                          THEN "report" ELSE "NoValidBase"]_vars

\* the second batch of a two-batch wave settled first; its value, which
\* differs from the first batch's, still comes second
C20_Witness ==
  /\ pc = "done"
  /\ overtaken
  /\ Len(batches) = 2
  /\ concurrency >= 2
  /\ Len(results) = 2
  /\ results[1] # results[2]
  /\ results[1] = task[1].value[1]
  /\ results[2] = task[2].value[1]
  /\ outcome = "report"

\* the batch results fit as template, as the claim C21 lists the conditions
CompleteResults ==
  {k \in 1..Len(batchResults) :
     /\ batchResults[k].project_summary
     /\ batchResults[k].grades
     /\ \A c \in Categories : c \in batchResults[k].sections
     /\ "overall" \in batchResults[k].sections}

\* C21: aggregateResults fails with the no-valid-base error iff no element of
\* batchResults has project_summary, grades, the four category sections and
\* overall; otherwise it returns a report whose template (seen in the
\* untouched overall.summary) is the first such element.
C21_NoValidBaseIff ==
  aggregated # NoValue =>
    /\ aggregated[1].ok <=> CompleteResults # {}
    /\ ~aggregated[1].ok => aggregated[1].error = "NoValidBase"
    /\ aggregated[1].ok =>
         \E k \in CompleteResults :
           /\ \A j \in CompleteResults : k <= j
           /\ Report.overall.summary = batchResults[k].overall.summary

\* two complete results with different summaries: the first is the template
C21_Witness ==
  /\ AggregateReturned
  /\ CompleteResults = {1, 2}
  /\ batchResults[1].overall.summary # batchResults[2].overall.summary
  /\ Report.overall.summary = batchResults[1].overall.summary

\* C23: range invariant - for batch results whose category scores lie in
\* 0..10 (0..100 tenths), every aggregated category score and the recomputed
\* weighted score lie in [0, 10], the final grade is one of A, B, C, D, F, and
\* the overall carried by the template is replaced by the recomputed one.
C23_GradeRanges ==
  AggregateReturned =>
    /\ \A c \in Categories : Report.score[c] \in 0..100
    /\ Report.overall.weighted_score \in 0..100
    /\ Report.overall.final_grade \in {"A", "B", "C", "D", "F"}
    /\ 100 * Report.overall.weighted_score - 50
         <= 25 * Report.score["architecture"] + 30 * Report.score["code_quality"]
              + 25 * Report.score["validations"] + 20 * Report.score["error_handling"]
    /\ 25 * Report.score["architecture"] + 30 * Report.score["code_quality"]
         + 25 * Report.score["validations"] + 20 * Report.score["error_handling"]
         < 100 * Report.overall.weighted_score + 50
    /\ Report.overall.final_grade = "A"
         <=> 25 * Report.score["architecture"] + 30 * Report.score["code_quality"]
               + 25 * Report.score["validations"] + 20 * Report.score["error_handling"] >= 9000
    /\ Report.overall.final_grade = "F"
         <=> 25 * Report.score["architecture"] + 30 * Report.score["code_quality"]
               + 25 * Report.score["validations"] + 20 * Report.score["error_handling"] < 3000

\* the template carried 10.0 / A; the report says 3.0 / D, with sizes above 1
C23_Witness ==
  /\ AggregateReturned
  /\ Len(batchResults) = 1
  /\ batchResults[1].overall.final_grade = "A"
  /\ batchResults[1].overall.weighted_score = 100
  /\ Report.overall.final_grade = "D"
  /\ Report.overall.weighted_score = 30

\* C22: inputCost = promptTokens / 1,000,000 * inputRate, outputCost =
\* completionTokens / 1,000,000 * outputRate and totalCost is their sum; the
\* rates of a flat-rate model (gemini-2.5-flash, the Azure deployment) are
\* constant, and for the tiered model the above-threshold rate is used iff the
\* token count is strictly greater than 200,000, separately for input (prompt
\* tokens) and output (completion tokens). Flat $0.30/$2.50 over 1,000,000
\* prompt and 200,000 completion tokens gives $0.30 and $0.50 (costs are held
\* in 10^-8 USD).
C22_CostFormula ==
  (costs # NoValue /\ (costs[1].model # modelName \/ modelName \in DOMAIN PRICING)) =>
    LET c == costs[1]
        p == tokenUsage.prompt_tokens
        q == tokenUsage.completion_tokens
        inputRate == IF c.model # modelName THEN 15
                     ELSE IF modelName = "gemini-2.5-flash" THEN 30
                     ELSE IF p > 200000 THEN 250 ELSE 125
        outputRate == IF c.model # modelName THEN 60
                      ELSE IF modelName = "gemini-2.5-flash" THEN 250
                      ELSE IF q > 200000 THEN 1500 ELSE 1000
    IN /\ c.input_cost_usd = Num(p * inputRate)
       /\ c.output_cost_usd = Num(q * outputRate)
       /\ c.total_cost_usd = Num(p * inputRate + q * outputRate)
       /\ (c.model = "gemini-2.5-flash" /\ p = 1000000 /\ q = 200000) =>
            (c.input_cost_usd.v = 30000000 /\ c.output_cost_usd.v = 50000000)

\* the tiered model with the prompt exactly at the threshold (lower rate) and
\* the completion one token above it (higher rate)
C22_Witness ==
  /\ costs # NoValue
  /\ costs[1].model = "gemini-2.5-pro"
  /\ tokenUsage.prompt_tokens = 200000
  /\ tokenUsage.completion_tokens = 200001
  /\ costs[1].input_cost_usd.v = 200000 * 125
  /\ costs[1].output_cost_usd.v = 200001 * 1500

\* every reordering of a list
Reorderings(list) ==
  {[k \in 1..Len(list) |-> list[f[k]]] :
     f \in {g \in [1..Len(list) -> 1..Len(list)] :
              \A x, y \in 1..Len(list) : g[x] = g[y] => x = y}}

\* what C24 compares of a report: the grades, total_classes and, per title,
\* the merged occurrences and the set of affected files
NumericPart(report) ==
  [score |-> report.score,
   weighted_score |-> report.overall.weighted_score,
   final_grade |-> report.overall.final_grade,
   total_classes |-> report.project_summary.total_classes,
   common_problems |->
     {[title |-> report.common_problems[k].title,
       occurrences |-> report.common_problems[k].occurrences,
       affected_files |-> {report.common_problems[k].affected_files[x] :
                             x \in 1..Len(report.common_problems[k].affected_files)}] :
        k \in 1..Len(report.common_problems)}]

\* C24: order-independence of the numeric aggregation - for every permutation
\* of batchResults, aggregateResults yields the same four category scores, the
\* same weightedScore and finalGrade, the same total_classes and the same
\* per-title merged occurrences and affected-file sets.
C24_OrderIndependent ==
  AggregateReturned =>
    \A permuted \in Reorderings(batchResults) :
      LET other == aggregateResults(permuted, SumOfSizes(permuted), Len(permuted))
      IN other.ok /\ NumericPart(other.value[1]) = NumericPart(Report)

InputTopIssues == Flatten([k \in 1..Len(batchResults) |-> batchResults[k].top_issues])

InputRecommendations ==
  Flatten([k \in 1..Len(batchResults) |-> batchResults[k].recommendations])

\* the position of the first input recommendation with the description
FirstEncounter(description) ==
  CHOOSE j \in 1..Len(InputRecommendations) :
    /\ InputRecommendations[j].description = description
    /\ \A x \in 1..(j - 1) : InputRecommendations[x].description # description

\* C26: the aggregated recommendations contain exactly one entry per distinct
\* description, that entry is the first recommendation with that description
\* encountered in batch-list order, and the entries appear in order of first
\* encounter.
C26_RecommendationMerge ==
  AggregateReturned =>
    LET out == Report.recommendations
    IN /\ {out[k].description : k \in 1..Len(out)}
            = {InputRecommendations[j].description : j \in 1..Len(InputRecommendations)}
       /\ \A k, l \in 1..Len(out) : out[k].description = out[l].description => k = l
       /\ \A k \in 1..Len(out) :
            out[k] = InputRecommendations[FirstEncounter(out[k].description)]
       /\ \A k, l \in 1..Len(out) :
            k < l => FirstEncounter(out[k].description) < FirstEncounter(out[l].description)

\* a description met again with another priority in a later batch, after a
\* second description: two entries, the earlier priority kept
C26_Witness ==
  /\ AggregateReturned
  /\ Len(InputRecommendations) = 3
  /\ Len(Report.recommendations) = 2
  /\ Report.recommendations[2] = Recommendation("Add input validation", "medium")
  /\ InputRecommendations[3] = Recommendation("Add input validation", "low")

\* C30: createBatches never returns an empty batch - for every input
\* sequence, every batchSize >= 1 and every token budget each returned batch
\* has at least one item, and an empty input yields an empty list of batches.
C30_NoEmptyBatch ==
  pc = "planned" =>
    /\ \A k \in 1..Len(batches) : Len(batches[k]) >= 1
    /\ fileContents = <<>> => batches = <<>>

\* the first file alone exceeds the budget, and so does a later one
C30_Witness ==
  /\ pc = "planned"
  /\ Len(fileContents) >= 3
  /\ estimateTokens(fileContents[1].content) > maxInputTokens
  /\ estimateTokens(fileContents[3].content) > maxInputTokens
  /\ Len(batches) = 3
  /\ \A k \in 1..Len(batches) : Len(batches[k]) >= 1

\* C27: termination of dispatch - provided each remote call attempt returns
\* or fails, processBatchesInParallel eventually returns, no batch is ever
\* attempted more than RETRY_ATTEMPTS times, and by the return every batch of
\* the plan has been attempted at least once.
C27_DispatchTerminates ==
  /\ [](\A b \in DOMAIN hist : hist[b].calls <= RETRY_ATTEMPTS)
  /\ <>(/\ pc = "returned"
         /\ DOMAIN hist = 1..Len(batches)
         /\ \A b \in 1..Len(batches) : hist[b].calls \in 1..RETRY_ATTEMPTS)

\* three batches in two waves: one used all its attempts, one needed a single
\* attempt, and the function has returned
C27_Witness ==
  /\ pc = "returned"
  /\ Len(batches) = 3
  /\ concurrency = 2
  /\ hist[1].calls = RETRY_ATTEMPTS
  /\ hist[2].calls = 1
  /\ hist[3].calls = 2
  /\ Len(results) + Len(errors) = 3

\* the usage of the last attempt of every batch that ended in success, added
\* field by field
RECURSIVE SumUsage(_, _)
SumUsage(S, field) ==
  IF S = {} THEN 0
  ELSE LET b == CHOOSE b \in S : TRUE
       IN task[b].value[1].token_usage[field] + SumUsage(S \ {b}, field)

\* C28: the token_usage of the final report is the componentwise sum (prompt,
\* completion, total) of the usage recorded on the batch results in results
\* only - batches that ended in errors and failed attempts of batches that
\* later succeeded contribute nothing - and the estimated cost is computed
\* from exactly these totals.
C28_UsageAccounting ==
  (pc = "done" /\ outcome = "report") =>
    /\ tokenUsage.prompt_tokens = SumUsage(OkBatches, "prompt_tokens")
    /\ tokenUsage.completion_tokens = SumUsage(OkBatches, "completion_tokens")
    /\ tokenUsage.total_tokens = SumUsage(OkBatches, "total_tokens")
    /\ costs # NoValue
    /\ costs[1].input_cost_usd = Num(15 * SumUsage(OkBatches, "prompt_tokens"))
    /\ costs[1].output_cost_usd = Num(60 * SumUsage(OkBatches, "completion_tokens"))
    /\ costs[1].total_cost_usd
         = Num(15 * SumUsage(OkBatches, "prompt_tokens")
                 + 60 * SumUsage(OkBatches, "completion_tokens"))

\* batch 1 succeeded after an attempt whose reply (4000 prompt tokens) could
\* not be parsed, batch 2 used up its attempts with one such reply among
\* them: neither reply is counted
C28_Witness ==
  /\ pc = "done"
  /\ outcome = "report"
  /\ Len(batches) = 2
  /\ task[1].phase = "ok"
  /\ hist[1].unparsed # {}
  /\ task[2].phase = "failed"
  /\ hist[2].unparsed # {}
  /\ tokenUsage = [prompt_tokens |-> 2000, completion_tokens |-> 500, total_tokens |-> 2600]
  /\ costs[1].total_cost_usd.v = 15 * 2000 + 60 * 500

\* C29: aggregateResults does not modify its input - when it returns or
\* throws, every element of batchResults, the template with its nested
\* problems, recommendations and _actual_batch_size marker included, is as it
\* was before the call; only the returned copy lacks the marker.
C29_InputUntouched ==
  [][aggregated' # aggregated =>
       /\ batchResults' = batchResults
       /\ aggregated'[1].ok =>
            /\ "_actual_batch_size" \notin DOMAIN aggregated'[1].value[1]
            /\ \A k \in 1..Len(batchResults') :
                 "_actual_batch_size" \in DOMAIN batchResults'[k]]_vars

\* two results report the same problem: the report holds the merged count
\* and files, the first result still its own
C29_Witness ==
  /\ AggregateReturned
  /\ Len(batchResults) = 2
  /\ Len(batchResults[1].common_problems) = 1
  /\ Len(batchResults[2].common_problems) = 1
  /\ Len(Report.common_problems) = 1
  /\ Report.common_problems[1].occurrences = 5
  /\ Report.common_problems[1].affected_files = <<"A.java", "B.java">>
  /\ batchResults[1].common_problems[1].occurrences = 2
  /\ batchResults[1].common_problems[1].affected_files = <<"A.java">>
  /\ batchResults[1]._actual_batch_size = 1

====
